---- MODULE Spec2Model ----
(***************************************************************************)
(* Transcript acquisition pipeline of api/services/transcriber.py:         *)
(* TranscriberService.get_transcript and its fallback                      *)
(* _extract_audio_and_transcribe, run as coroutines on one event loop.     *)
(*                                                                         *)
(* Strings are sequences of one-character strings, except that the         *)
(* literals the resolver's patterns look for are single tokens of a URL.   *)
(* An exception message is the sequence of its parts, outermost prefix     *)
(* first, as the f-strings of the handlers build it.                       *)
(***************************************************************************)
EXTENDS Integers, Sequences, FiniteSets, TLC

\* ------------------------------------------------------------------ bounds
\* Longest caption track (number of segments) the caption source returns.
MaxSegs == 2
\* Seconds of wall-clock time that pass in one step of a waiting download.
TickSeconds == 150

\* ------------------------------------------------------------ text helpers
\* Characters that str.strip() removes.
Whitespace == {" ", "\n"}

\* Segment texts the caption source may deliver.
SegTexts == { <<>>, <<" ">>, <<"a">>, <<" ", "a", " ">> }

RECURSIVE SeqsUpTo(_, _)
SeqsUpTo(S, n) ==
    IF n = 0 THEN { <<>> }
    ELSE LET shorter == SeqsUpTo(S, n - 1)
         IN  shorter \cup { Append(s, x) : s \in shorter, x \in S }

\* Caption tracks: ordered segment texts (timestamps play no part here).
Tracks == SeqsUpTo(SegTexts, MaxSegs)

\* " ".join(parts)
RECURSIVE Join(_)
Join(parts) ==
    IF Len(parts) = 0 THEN <<>>
    ELSE IF Len(parts) = 1 THEN parts[1]
    ELSE parts[1] \o <<" ">> \o Join(Tail(parts))

RECURSIVE LStrip(_)
LStrip(s) ==
    IF Len(s) > 0 /\ s[1] \in Whitespace THEN LStrip(Tail(s)) ELSE s

RECURSIVE RStrip(_)
RStrip(s) ==
    IF Len(s) > 0 /\ s[Len(s)] \in Whitespace
    THEN RStrip(SubSeq(s, 1, Len(s) - 1))
    ELSE s

\* str.strip()
Strip(s) == RStrip(LStrip(s))

\* ---------------------------------------------------------------- resolver
\* None, and the empty string: both are false in "if not video_id".
None == <<>>

\* Characters excluded by the capture group [^&\n?#]+
StopTokens == {"&", "\n", "?", "#"}

\* The literal openings of the first pattern's alternatives.
Pattern1Prefixes ==
    { <<"youtube.com/watch", "?", "v=">>,
      <<"youtu.be/">>,
      <<"youtube.com/embed/">> }

\* The literal opening of the second pattern, before ".*v=".
Pattern2Prefix == <<"youtube.com/watch", "?">>

\* lit occurs in s starting at position i
LitAt(s, i, lit) ==
    /\ i + Len(lit) - 1 <= Len(s)
    /\ \A k \in 1..Len(lit) : s[i + k - 1] = lit[k]

\* The greedy capture [^&\n?#]+ starting at position i (empty: no match).
RECURSIVE Capture(_, _)
Capture(s, i) ==
    IF i > Len(s) \/ s[i] \in StopTokens THEN <<>>
    ELSE <<s[i]>> \o Capture(s, i + 1)

\* re.search(pattern 1): the leftmost position where an alternative and a
\* non-empty capture match.
Search1(s) ==
    LET hits == { i \in 1..Len(s) :
                    \E p \in Pattern1Prefixes :
                        LitAt(s, i, p) /\ Capture(s, i + Len(p)) # <<>> }
    IN  IF hits = {} THEN None
        ELSE LET i == CHOOSE h \in hits : \A g \in hits : h <= g
                 p == CHOOSE q \in Pattern1Prefixes : LitAt(s, i, q)
             IN  Capture(s, i + Len(p))

\* re.search(pattern 2): leftmost "youtube.com/watch?", then the greedy ".*"
\* (which does not cross a newline) gives the last "v=" with a non-empty
\* capture after it.
Search2(s) ==
    LET ends(i) == { j \in (i + 2)..Len(s) :
                       /\ s[j] = "v="
                       /\ \A k \in (i + 2)..(j - 1) : s[k] # "\n"
                       /\ Capture(s, j + 1) # <<>> }
        hits == { i \in 1..Len(s) : LitAt(s, i, Pattern2Prefix) /\ ends(i) # {} }
    IN  IF hits = {} THEN None
        ELSE LET i == CHOOSE h \in hits : \A g \in hits : h <= g
                 j == CHOOSE e \in ends(i) : \A f \in ends(i) : f <= e
             IN  Capture(s, j + 1)

\* TranscriberService._extract_video_id
_extract_video_id(youtube_url) ==
    IF Search1(youtube_url) # None THEN Search1(youtube_url)
    ELSE Search2(youtube_url)

\* URLs handed to get_transcript.
URLS ==
    { <<"https://", "youtube.com/watch", "?", "v=", "a", "b">>,
      <<"https://", "youtu.be/", "a", "b", "?", "t=", "1">>,
      <<"https://", "youtube.com/watch", "?", "t=", "&", "v=", "a", "b">>,
      <<"https://", "example.com/", "a", "b">>,
      <<"https://", "youtu.be/", "?", "t=", "1">> }

\* ------------------------------------------------------- exception messages
PrefixGetTranscript == "Failed to get transcript: "
PrefixExtract == "Failed to extract and transcribe audio: "
MsgInvalidUrl == "Invalid YouTube URL, could not extract video ID."
MsgNoTranscript == "No transcript available for this video."
MsgNoFfmpeg == "No subtitles available for this video and audio extraction requires ffmpeg (not installed). Please install ffmpeg or try a video with subtitles enabled."
MsgVideoUnavailable == "This video is not available or has been removed. Please check the URL and try again."
MsgFfmpegNotFound == "Audio extraction requires ffmpeg to be installed. Please install ffmpeg or try a video with subtitles enabled."
MsgBlocked == "YouTube blocked access to this video. Please try a video with subtitles enabled."
MsgExtractFailed == "Failed to extract audio from video. Please try a video with subtitles enabled."
MsgNoAudioFile == "No audio file was extracted."
MsgNotImplemented == "Audio extraction successful, but automatic transcription is not yet implemented. Please try a video with subtitles enabled."
MsgTimeout == "Audio extraction timed out. Please try a shorter video or one with subtitles enabled."

\* str(e) of an exception raised by a library, by its type.
StrOf(type) == "str(" \o type \o ")"

Exc(type, msg) == [type |-> type, msg |-> msg]

NoExc == Exc("", <<>>)
NoError == ""

\* ------------------------------------------------------------ caption source
\* Exceptions YouTubeTranscriptApi.get_transcript raises: the three the
\* module imports, a parse error on a malformed payload, a network error.
CaptionErrors ==
    {"NoTranscriptFound", "TranscriptsDisabled", "VideoUnavailable",
     "ParseError", "ConnectionError"}

CaptionOutcomes ==
    [kind : {"ok"}, track : Tracks, error : {NoError}]
        \cup [kind : {"raise"}, track : {<<>>}, error : CaptionErrors]

NotFetched == [kind |-> "none", track |-> <<>>, error |-> NoError]

\* The inner try of get_transcript falls back on every caption error.
FallbackOnAnyError(out) ==
    IF out.kind = "ok"
    THEN IF Join(out.track) # <<>>
         THEN [to |-> "return", text |-> Strip(Join(out.track)), exc |-> NoExc]
         ELSE [to |-> "raise", text |-> <<>>,
               exc |-> Exc("ValueError", <<MsgNoTranscript>>)]
    ELSE [to |-> "fallback", text |-> <<>>, exc |-> NoExc]

\* The inner try of get_transcript catches the library's base class, and so
\* falls back on VideoUnavailable too.
FallbackOnCouldNotRetrieve(out) ==
    IF out.kind = "ok"
    THEN IF Join(out.track) # <<>>
         THEN [to |-> "return", text |-> Strip(Join(out.track)), exc |-> NoExc]
         ELSE [to |-> "raise", text |-> <<>>,
               exc |-> Exc("ValueError", <<MsgNoTranscript>>)]
    ELSE IF out.error \in {"NoTranscriptFound", "TranscriptsDisabled", "VideoUnavailable"}
    THEN [to |-> "fallback", text |-> <<>>, exc |-> NoExc]
    ELSE [to |-> "raise", text |-> <<>>,
          exc |-> Exc(out.error, <<StrOf(out.error)>>)]

\* The inner try of get_transcript falls back on an empty joined text too.
FallbackOnEmptyText(out) ==
    IF out.kind = "ok" /\ Join(out.track) # <<>>
    THEN [to |-> "return", text |-> Strip(Join(out.track)), exc |-> NoExc]
    ELSE IF out.kind = "ok" \/ out.error \in {"NoTranscriptFound", "TranscriptsDisabled"}
    THEN [to |-> "fallback", text |-> <<>>, exc |-> NoExc]
    ELSE [to |-> "raise", text |-> <<>>,
          exc |-> Exc(out.error, <<StrOf(out.error)>>)]

\* The inner try of get_transcript returns the joined text without strip().
ReturnUnstripped(out) ==
    IF out.kind = "ok"
    THEN IF Join(out.track) # <<>>
         THEN [to |-> "return", text |-> Join(out.track), exc |-> NoExc]
         ELSE [to |-> "raise", text |-> <<>>,
               exc |-> Exc("ValueError", <<MsgNoTranscript>>)]
    ELSE IF out.error \in {"NoTranscriptFound", "TranscriptsDisabled"}
    THEN [to |-> "fallback", text |-> <<>>, exc |-> NoExc]
    ELSE [to |-> "raise", text |-> <<>>,
          exc |-> Exc(out.error, <<StrOf(out.error)>>)]

\* Lines 65-79 of get_transcript: what follows the caption source's answer.
AfterCaptions(out) ==
    IF out.kind = "ok"
    THEN LET transcript_text == Join(out.track)
         IN  IF transcript_text # <<>>
             THEN [to |-> "return", text |-> Strip(transcript_text), exc |-> NoExc]
             ELSE [to |-> "raise", text |-> <<>>,
                   exc |-> Exc("ValueError", <<MsgNoTranscript>>)]
    ELSE IF out.error \in {"NoTranscriptFound", "TranscriptsDisabled"}
    THEN [to |-> "fallback", text |-> <<>>, exc |-> NoExc]
    ELSE [to |-> "raise", text |-> <<>>,
          exc |-> Exc(out.error, <<StrOf(out.error)>>)]

\* The outer handlers without the "except VideoUnavailable" clause.
OuterHandlerGenericOnly(e) ==
    Exc("Exception", <<PrefixGetTranscript>> \o e.msg)

\* Lines 81-87: the outer handlers of get_transcript, applied to an
\* exception leaving its try block; the result is what the caller sees.
OuterHandler(e) ==
    IF e.type = "VideoUnavailable"
    THEN Exc("Exception", <<MsgVideoUnavailable>>)
    ELSE Exc("Exception", <<PrefixGetTranscript>> \o e.msg)

\* The handlers of the extraction stage without "except TimeoutExpired".
ExtractHandlerGenericOnly(e) ==
    Exc("Exception", <<PrefixExtract>> \o e.msg)

\* Lines 138-142: the handlers of _extract_audio_and_transcribe.
ExtractHandler(e) ==
    IF e.type = "TimeoutExpired"
    THEN Exc("Exception", <<MsgTimeout>>)
    ELSE Exc("Exception", <<PrefixExtract>> \o e.msg)

\* ------------------------------------------------------------ download tool
ErrFfmpeg == "ffprobe and ffmpeg not found"
Err403 == "HTTP Error 403"

\* stderr of yt-dlp, by the phrases of interest it contains.
Stderrs == SUBSET {ErrFfmpeg, Err403}

\* Files yt-dlp may leave in the temporary directory.
FileNames == {"audio.mp3", "audio.mp3.part"}

EndsWithMp3(f) == f = "audio.mp3"

\* The 403 test comes before the ffmpeg test.
ClassifyBlockedFirst(err) ==
    IF Err403 \in err THEN Exc("Exception", <<MsgBlocked>>)
    ELSE IF ErrFfmpeg \in err THEN Exc("Exception", <<MsgFfmpegNotFound>>)
    ELSE Exc("Exception", <<MsgExtractFailed>>)

\* A blocked download is reported with the generic extraction message.
ClassifyBlockedAsGeneric(err) ==
    IF ErrFfmpeg \in err THEN Exc("Exception", <<MsgFfmpegNotFound>>)
    ELSE Exc("Exception", <<MsgExtractFailed>>)

\* Lines 114-124: the exception raised for a non-zero exit of yt-dlp.
ClassifyExit(err) ==
    IF ErrFfmpeg \in err THEN Exc("Exception", <<MsgFfmpegNotFound>>)
    ELSE IF Err403 \in err THEN Exc("Exception", <<MsgBlocked>>)
    ELSE Exc("Exception", <<MsgExtractFailed>>)

\* Lines 114-136: what the stage raises once yt-dlp has exited; no path
\* through these lines returns.
AfterDownload(rc, err, files) ==
    IF rc # 0 THEN ClassifyExit(err)
    ELSE IF { f \in files : EndsWithMp3(f) } = {}
    THEN Exc("Exception", <<MsgNoAudioFile>>)
    ELSE Exc("Exception", <<MsgNotImplemented>>)

\* ------------------------------------------------------------------- state
\* Invocations of get_transcript on the one TranscriberService instance.
Calls == {"r1", "r2"}
NoCall == "none"

\* timeout=300 of subprocess.run
timeout == 300

VARIABLES
    _ffmpeg_available,  \* the flag cached by __init__
    probes,             \* how often _check_ffmpeg_availability has run
    running,            \* the coroutine the event loop is executing
    pc,                 \* each invocation's position
    youtube_url,        \* its argument
    video_id,           \* its local video_id
    captions,           \* what the caption source answered
    temp_dir,           \* its temporary directory: "none", "exists", "removed"
    temp_files,         \* the files in that directory
    proc,               \* its yt-dlp process: "none", "running", "exited", "killed"
    elapsed,            \* seconds the process has run
    returncode,         \* result.returncode
    stderr,             \* result.stderr
    audio_files,        \* the .mp3 files line 127 found
    result,             \* what the caller got: a text or an exception
    count,              \* per invocation, how often each collaborator was used
    ep,                 \* analyze_content: the position of the request behind a call
    response,           \* analyze_content: the HTTP status it answered with
    resolved            \* a URL given to both resolvers, and what they returned

vars ==
    << _ffmpeg_available, probes, running, pc, youtube_url, video_id, captions,
       temp_dir, temp_files, proc, elapsed, returncode, stderr, audio_files,
       result, count, ep, response, resolved >>

NoResult == [kind |-> "none", text |-> <<>>, exc |-> NoExc]
Returned(text) == [kind |-> "return", text |-> text, exc |-> NoExc]
Raised(e) == [kind |-> "raise", text |-> <<>>, exc |-> e]

NoCount == [fetch |-> 0, flag |-> 0, extract |-> 0, mkdtemp |-> 0, ytdlp |-> 0]

Bump(c, what) == [count EXCEPT ![c][what] = @ + 1]

Terminal == {"Done", "Failed"}

\* __init__ has run: the flag holds what _check_ffmpeg_availability found.
ServiceInit ==
    /\ _ffmpeg_available \in BOOLEAN
    /\ probes = 1
    /\ running = NoCall
    /\ pc = [c \in Calls |-> "Idle"]
    /\ youtube_url = [c \in Calls |-> <<>>]
    /\ video_id = [c \in Calls |-> None]
    /\ captions = [c \in Calls |-> NotFetched]
    /\ temp_dir = [c \in Calls |-> "none"]
    /\ temp_files = [c \in Calls |-> {}]
    /\ proc = [c \in Calls |-> "none"]
    /\ elapsed = [c \in Calls |-> 0]
    /\ returncode = [c \in Calls |-> 0]
    /\ stderr = [c \in Calls |-> {}]
    /\ audio_files = [c \in Calls |-> {}]
    /\ result = [c \in Calls |-> NoResult]
    /\ count = [c \in Calls |-> NoCount]

\* No request has reached analyze_content.
EndpointInit ==
    /\ ep = [c \in Calls |-> "Idle"]
    /\ response = [c \in Calls |-> 0]

\* No URL is being resolved.
NotResolving ==
    [url |-> <<>>, shape |-> "none", id |-> <<>>,
     t_done |-> FALSE, t |-> <<>>, u_done |-> FALSE, u |-> <<>>]

Init ==
    /\ ServiceInit
    /\ EndpointInit
    /\ resolved = NotResolving

\* ----------------------------------------------------------------- actions
\* get_transcript hands its caller a text or an exception; with no await
\* left to run, the event loop is free again, unless the caller is
\* analyze_content, which runs on with the outcome.
Finish(c, res) ==
    /\ result' = [result EXCEPT ![c] = res]
    /\ pc' = [pc EXCEPT ![c] = IF res.kind = "return" THEN "Done" ELSE "Failed"]
    /\ running' = IF ep[c] = "Transcript" THEN c ELSE NoCall

\* The fallback is entered whether or not ffmpeg was found.
ExtractWithoutFfmpeg(flag) == [to |-> "extract", exc |-> NoExc]

\* Lines 75-77: the fallback decision on the cached flag.
AfterFlag(flag) ==
    IF ~flag
    THEN [to |-> "raise", exc |-> Exc("Exception", <<MsgNoFfmpeg>>)]
    ELSE [to |-> "extract", exc |-> NoExc]

\* The directory is removed only when the block is left by a plain exception.
LeakOnTimeout(how) ==
    IF how = "TimeoutExpired"
    THEN [dir |-> "exists", keep |-> TRUE]
    ELSE [dir |-> "removed", keep |-> FALSE]

\* Line 96: leaving the "with tempfile.TemporaryDirectory()" block, however
\* it is left, removes the directory and what it holds.
ExitTempDir(how) == [dir |-> "removed", keep |-> FALSE]

\* The caller awaits get_transcript(url): the coroutine starts running.
Invoke(c) ==
    /\ running = NoCall
    /\ pc[c] = "Idle"
    /\ ep[c] = "Idle"
    /\ UNCHANGED << ep, response, resolved >>
    /\ \E u \in URLS : youtube_url' = [youtube_url EXCEPT ![c] = u]
    /\ pc' = [pc EXCEPT ![c] = "ResolvingId"]
    /\ running' = c
    /\ UNCHANGED << _ffmpeg_available, probes, audio_files, video_id, captions, temp_dir,
                    temp_files, proc, elapsed, returncode, stderr, result, count >>

\* get_transcript goes on to the caption source without testing video_id.
ResolveIdUnchecked(c) ==
    /\ running = c
    /\ UNCHANGED << ep, response, resolved >>
    /\ pc[c] = "ResolvingId"
    /\ video_id' = [video_id EXCEPT ![c] = _extract_video_id(youtube_url[c])]
    /\ pc' = [pc EXCEPT ![c] = "FetchingCaptions"]
    /\ UNCHANGED << _ffmpeg_available, probes, audio_files, youtube_url, captions,
                    temp_dir, temp_files, proc, elapsed, returncode, stderr, count,
                    running, result >>

\* Lines 58-60.
ResolveId(c) ==
    /\ running = c
    /\ UNCHANGED << ep, response, resolved >>
    /\ pc[c] = "ResolvingId"
    /\ LET id == _extract_video_id(youtube_url[c])
       IN  /\ video_id' = [video_id EXCEPT ![c] = id]
           /\ IF id = None
              THEN Finish(c, Raised(OuterHandler(Exc("ValueError", <<MsgInvalidUrl>>))))
              ELSE /\ pc' = [pc EXCEPT ![c] = "FetchingCaptions"]
                   /\ UNCHANGED << running, result >>
    /\ UNCHANGED << _ffmpeg_available, probes, audio_files, youtube_url, captions, temp_dir,
                    temp_files, proc, elapsed, returncode, stderr, count >>

\* Lines 65-79: the blocking call of the caption source and what follows it.
FetchCaptions(c) ==
    /\ running = c
    /\ UNCHANGED << ep, response, resolved >>
    /\ pc[c] = "FetchingCaptions"
    /\ \E out \in CaptionOutcomes :
        /\ captions' = [captions EXCEPT ![c] = out]
        /\ LET a == AfterCaptions(out)
           IN  CASE a.to = "return" -> Finish(c, Returned(a.text))
                 [] a.to = "raise" -> Finish(c, Raised(OuterHandler(a.exc)))
                 [] a.to = "fallback" ->
                        /\ pc' = [pc EXCEPT ![c] = "ProbingTooling"]
                        /\ UNCHANGED << running, result >>
    /\ count' = Bump(c, "fetch")
    /\ UNCHANGED << _ffmpeg_available, probes, audio_files, youtube_url, video_id, temp_dir,
                    temp_files, proc, elapsed, returncode, stderr >>

\* The fallback decision probes for ffmpeg again instead of reading the
\* cached flag.
CheckToolingReprobing(c) ==
    /\ running = c
    /\ UNCHANGED << ep, response, resolved >>
    /\ pc[c] = "ProbingTooling"
    /\ probes' = probes + 1
    /\ \E found \in BOOLEAN :
        /\ _ffmpeg_available' = found
        /\ LET a == AfterFlag(found)
           IN  IF a.to = "raise"
               THEN /\ Finish(c, Raised(OuterHandler(a.exc)))
                    /\ count' = Bump(c, "flag")
               ELSE /\ pc' = [pc EXCEPT ![c] = "ExtractingAudio"]
                    /\ count' = [count EXCEPT ![c].flag = @ + 1, ![c].extract = @ + 1]
                    /\ UNCHANGED << running, result >>
    /\ UNCHANGED << audio_files, youtube_url, video_id, captions,
                    temp_dir, temp_files, proc, elapsed, returncode, stderr >>

\* Lines 75-77: read the cached flag; enter the fallback or give up.
CheckTooling(c) ==
    /\ running = c
    /\ UNCHANGED << ep, response, resolved >>
    /\ pc[c] = "ProbingTooling"
    /\ LET a == AfterFlag(_ffmpeg_available)
       IN  IF a.to = "raise"
           THEN /\ Finish(c, Raised(OuterHandler(a.exc)))
                /\ count' = Bump(c, "flag")
           ELSE /\ pc' = [pc EXCEPT ![c] = "ExtractingAudio"]
                /\ count' = [count EXCEPT ![c].flag = @ + 1, ![c].extract = @ + 1]
                /\ UNCHANGED << running, result >>
    /\ UNCHANGED << _ffmpeg_available, probes, audio_files, youtube_url, video_id, captions,
                    temp_dir, temp_files, proc, elapsed, returncode, stderr >>

\* Line 96: create the temporary directory (or fail to).
CreateTempDir(c) ==
    /\ running = c
    /\ UNCHANGED << ep, response, resolved >>
    /\ pc[c] = "ExtractingAudio"
    /\ \E ok \in BOOLEAN :
        IF ok
        THEN /\ temp_dir' = [temp_dir EXCEPT ![c] = "exists"]
             /\ count' = Bump(c, "mkdtemp")
             /\ pc' = [pc EXCEPT ![c] = "StartingDownload"]
             /\ UNCHANGED << running, result >>
        ELSE /\ Finish(c, Raised(OuterHandler(ExtractHandler(
                    Exc("OSError", <<StrOf("OSError")>>)))))
             /\ UNCHANGED << temp_dir, count >>
    /\ UNCHANGED << _ffmpeg_available, probes, audio_files, youtube_url, video_id, captions,
                    temp_files, proc, elapsed, returncode, stderr >>

\* Line 112: subprocess.run starts yt-dlp (or finds no such program).
StartYtDlp(c) ==
    /\ running = c
    /\ UNCHANGED << ep, response, resolved >>
    /\ pc[c] = "StartingDownload"
    /\ \E ok \in BOOLEAN :
        IF ok
        THEN /\ proc' = [proc EXCEPT ![c] = "running"]
             /\ count' = Bump(c, "ytdlp")
             /\ pc' = [pc EXCEPT ![c] = "Downloading"]
             /\ UNCHANGED << running, result, temp_dir >>
        ELSE /\ temp_dir' = [temp_dir EXCEPT ![c] = ExitTempDir("FileNotFoundError").dir]
             /\ Finish(c, Raised(OuterHandler(ExtractHandler(
                    Exc("FileNotFoundError", <<StrOf("FileNotFoundError")>>)))))
             /\ UNCHANGED << proc, count >>
    /\ UNCHANGED << _ffmpeg_available, probes, audio_files, youtube_url, video_id, captions,
                    temp_files, elapsed, returncode, stderr >>

\* Line 112: subprocess.run blocks while yt-dlp runs and the budget lasts.
Tick(c) ==
    /\ running = c
    /\ UNCHANGED << ep, response, resolved >>
    /\ pc[c] = "Downloading"
    /\ elapsed[c] < timeout
    /\ elapsed' = [elapsed EXCEPT ![c] = @ + TickSeconds]
    /\ UNCHANGED << _ffmpeg_available, probes, audio_files, running, pc, youtube_url, video_id,
                    captions, temp_dir, temp_files, proc, returncode, stderr,
                    result, count >>

\* Line 112: yt-dlp exits within the budget; subprocess.run returns.
YtDlpExit(c) ==
    /\ running = c
    /\ UNCHANGED << ep, response, resolved >>
    /\ pc[c] = "Downloading"
    /\ elapsed[c] < timeout
    /\ \E rc \in {0, 1}, err \in Stderrs, files \in SUBSET FileNames :
        /\ returncode' = [returncode EXCEPT ![c] = rc]
        /\ stderr' = [stderr EXCEPT ![c] = err]
        /\ temp_files' = [temp_files EXCEPT ![c] = files]
    /\ proc' = [proc EXCEPT ![c] = "exited"]
    /\ pc' = [pc EXCEPT ![c] = "CheckingDownload"]
    /\ UNCHANGED << _ffmpeg_available, probes, audio_files, running, youtube_url, video_id,
                    captions, temp_dir, elapsed, result, count >>

\* A failed download is started once more before the stage gives up.
CheckDownloadWithRetry(c) ==
    /\ running = c
    /\ UNCHANGED << ep, response, resolved >>
    /\ pc[c] = "CheckingDownload"
    /\ IF returncode[c] # 0 /\ count[c].ytdlp < 2
       THEN /\ pc' = [pc EXCEPT ![c] = "StartingDownload"]
            /\ temp_files' = [temp_files EXCEPT ![c] = {}]
            /\ UNCHANGED << temp_dir, audio_files, running, result >>
       ELSE /\ audio_files' = [audio_files EXCEPT ![c] =
                    IF returncode[c] = 0
                    THEN { f \in temp_files[c] : EndsWithMp3(f) }
                    ELSE @]
            /\ temp_dir' = [temp_dir EXCEPT ![c] = "removed"]
            /\ temp_files' = [temp_files EXCEPT ![c] = {}]
            /\ Finish(c, Raised(OuterHandler(ExtractHandler(
                   AfterDownload(returncode[c], stderr[c], temp_files[c])))))
    /\ UNCHANGED << _ffmpeg_available, probes, youtube_url, video_id, captions,
                    proc, elapsed, returncode, stderr, count >>

\* Lines 114-142: classify the exit, leave the with-block, re-raise.
CheckDownload(c) ==
    /\ running = c
    /\ UNCHANGED << ep, response, resolved >>
    /\ pc[c] = "CheckingDownload"
    /\ audio_files' = [audio_files EXCEPT ![c] =
            IF returncode[c] = 0
            THEN { f \in temp_files[c] : EndsWithMp3(f) }
            ELSE @]
    /\ LET e == AfterDownload(returncode[c], stderr[c], temp_files[c])
           x == ExitTempDir(e.type)
       IN  /\ temp_dir' = [temp_dir EXCEPT ![c] = x.dir]
           /\ temp_files' = [temp_files EXCEPT ![c] = IF x.keep THEN @ ELSE {}]
           /\ Finish(c, Raised(OuterHandler(ExtractHandler(e))))
    /\ UNCHANGED << _ffmpeg_available, probes, youtube_url, video_id, captions,
                    proc, elapsed, returncode, stderr, count >>

\* Line 112: the budget is used up; subprocess.run kills yt-dlp and raises
\* TimeoutExpired.
YtDlpTimeout(c) ==
    /\ running = c
    /\ UNCHANGED << ep, response, resolved >>
    /\ pc[c] = "Downloading"
    /\ elapsed[c] >= timeout
    /\ \E files \in SUBSET FileNames :
        temp_files' = [temp_files EXCEPT ![c] = files]
    /\ proc' = [proc EXCEPT ![c] = "killed"]
    /\ pc' = [pc EXCEPT ![c] = "TimedOut"]
    /\ UNCHANGED << _ffmpeg_available, probes, audio_files, running, youtube_url, video_id,
                    captions, temp_dir, elapsed, returncode, stderr, result, count >>

\* Lines 96, 138-139: TimeoutExpired leaves the with-block and is re-raised.
HandleTimeout(c) ==
    /\ running = c
    /\ UNCHANGED << ep, response, resolved >>
    /\ pc[c] = "TimedOut"
    /\ LET e == Exc("TimeoutExpired", <<StrOf("TimeoutExpired")>>)
           x == ExitTempDir(e.type)
       IN  /\ temp_dir' = [temp_dir EXCEPT ![c] = x.dir]
           /\ temp_files' = [temp_files EXCEPT ![c] = IF x.keep THEN @ ELSE {}]
           /\ Finish(c, Raised(OuterHandler(ExtractHandler(e))))
    /\ UNCHANGED << _ffmpeg_available, probes, audio_files, youtube_url, video_id, captions,
                    proc, elapsed, returncode, stderr, count >>

Next ==
    \E c \in Calls :
        \/ Invoke(c)
        \/ ResolveId(c)
        \/ FetchCaptions(c)
        \/ CheckTooling(c)
        \/ CreateTempDir(c)
        \/ StartYtDlp(c)
        \/ Tick(c)
        \/ YtDlpExit(c)
        \/ CheckDownload(c)
        \/ YtDlpTimeout(c)
        \/ HandleTimeout(c)

Spec == Init /\ [][Next]_vars

\* ------------------------------------------------- YouTubeUtils' resolver
\* utils/youtube.py: the literal openings of patterns[0]'s alternatives.
YtPattern1Prefixes ==
    { <<"youtube.com/watch", "?", "v=">>,
      <<"youtu.be/">>,
      <<"youtube.com/embed/">> }

\* utils/youtube.py: the literal opening of patterns[1], before ".*v=".
YtPattern2Prefix == <<"youtube.com/watch", "?">>

\* re.search(patterns[0], youtube_url) in YouTubeUtils.extract_video_id
YtSearch1(s) ==
    LET starts == { i \in 1..Len(s) :
                      \E p \in YtPattern1Prefixes :
                          LitAt(s, i, p) /\ Capture(s, i + Len(p)) # <<>> }
    IN  IF starts = {} THEN None
        ELSE LET i == CHOOSE h \in starts : \A g \in starts : h <= g
                 p == CHOOSE q \in YtPattern1Prefixes : LitAt(s, i, q)
             IN  Capture(s, i + Len(p))

\* re.search(patterns[1], youtube_url) in YouTubeUtils.extract_video_id
YtSearch2(s) ==
    LET last(i) == { j \in (i + Len(YtPattern2Prefix))..Len(s) :
                       /\ s[j] = "v="
                       /\ \A k \in (i + Len(YtPattern2Prefix))..(j - 1) : s[k] # "\n"
                       /\ Capture(s, j + 1) # <<>> }
        starts == { i \in 1..Len(s) : LitAt(s, i, YtPattern2Prefix) /\ last(i) # {} }
    IN  IF starts = {} THEN None
        ELSE LET i == CHOOSE h \in starts : \A g \in starts : h <= g
                 j == CHOOSE e \in last(i) : \A f \in last(i) : f <= e
             IN  Capture(s, j + 1)

\* YouTubeUtils.extract_video_id with the first pattern only.
ExtractByFirstPatternOnly(url) == YtSearch1(url)

\* YouTubeUtils.extract_video_id
extract_video_id(url) ==
    IF YtSearch1(url) # None THEN YtSearch1(url)
    ELSE YtSearch2(url)

\* ------------------------------------------------------- resolver inputs
\* Longest identifier, in tokens.
MaxIdLen == 2
\* Longest URL made of arbitrary tokens.
MaxUrlLen == 4

\* Tokens of an identifier: none holds "&", "?", "#" or a newline.
IdTokens == {"a", "-", "v="}

Ids == SeqsUpTo(IdTokens, MaxIdLen) \ { <<>> }

\* The supported URL shapes, up to the identifier.
ShapeOpening(shape) ==
    CASE shape = "watch" -> <<"youtube.com/watch", "?", "v=">>
      [] shape = "short" -> <<"youtu.be/">>
      [] shape = "embed" -> <<"youtube.com/embed/">>

Shapes == {"watch", "short", "embed"}

\* What may precede the host, and what may follow the identifier.
UrlOpenings == { <<>>, <<"https://", "www.">> }
UrlEndings == { <<>>, <<"&", "t=", "a">>, <<"?", "t=", "a">>, <<"#", "a">> }

\* Tokens of arbitrary URLs.
UrlTokens ==
    {"youtube.com/watch", "?", "v=", "youtu.be/", "youtube.com/embed/",
     "&", "\n", "a"}

ToResolve(url, shape, id) ==
    [url |-> url, shape |-> shape, id |-> id,
     t_done |-> FALSE, t |-> <<>>, u_done |-> FALSE, u |-> <<>>]

ShapedInputs ==
    { ToResolve(o \o ShapeOpening(sh) \o id \o e, sh, id) :
        o \in UrlOpenings, sh \in Shapes, id \in Ids, e \in UrlEndings }

ArbitraryInputs ==
    { ToResolve(url, "any", <<>>) : url \in SeqsUpTo(UrlTokens, MaxUrlLen) \cup URLS }

\* The service is constructed; one URL is about to be given to both
\* resolvers.
ResolverInit ==
    /\ ServiceInit
    /\ EndpointInit
    /\ resolved \in ShapedInputs \cup ArbitraryInputs

\* TranscriberService._extract_video_id(url)
ResolveByTranscriber ==
    /\ resolved.shape # "none"
    /\ ~resolved.t_done
    /\ resolved' = [resolved EXCEPT !.t_done = TRUE,
                                    !.t = _extract_video_id(resolved.url)]
    /\ UNCHANGED << _ffmpeg_available, probes, running, pc, youtube_url, video_id,
                    captions, temp_dir, temp_files, proc, elapsed, returncode,
                    stderr, audio_files, result, count, ep, response >>

\* YouTubeUtils.extract_video_id(url)
ResolveByUtils ==
    /\ resolved.t_done
    /\ ~resolved.u_done
    /\ resolved' = [resolved EXCEPT !.u_done = TRUE,
                                    !.u = extract_video_id(resolved.url)]
    /\ UNCHANGED << _ffmpeg_available, probes, running, pc, youtube_url, video_id,
                    captions, temp_dir, temp_files, proc, elapsed, returncode,
                    stderr, audio_files, result, count, ep, response >>

ResolverNext == ResolveByTranscriber \/ ResolveByUtils

ResolverSpec == ResolverInit /\ [][ResolverNext]_vars

\* --------------------------------------------------------- analyze_content
\* models/schemas.py: the fields of AnalyzeRequest.
AnalyzeRequestFields == {"youtube_url"}

\* services/viral.py: the methods of ViralAnalysisService.
ViralServiceMethods ==
    {"analyze_viral_potential", "_calculate_engagement_score",
     "_analyze_trending_topics", "_evaluate_storytelling_structure"}

\* YouTubeUtils.get_video_metadata returns the mock metadata, or None when
\* the URL has no video id.
HasMetadata(url) == extract_video_id(url) # None

\* Lines 46-110 of analyze_content: the HTTP status answered once
\* get_transcript has ended with res. An exception, also the AttributeError
\* of reading a missing attribute, is turned into a 500 by lines 108-110.
AnalyzeOutcome(res) ==
    IF res.kind = "raise" THEN 500
    ELSE IF "file_path" \notin AnalyzeRequestFields THEN 500
    ELSE IF "calculate_viral_score" \notin ViralServiceMethods THEN 500
    ELSE 200

\* Lines 23-38: a POST /analyze arrives; youtube_url is a required field, so
\* the test of line 28 passes without reading request.file_path.
Request(c) ==
    /\ running = NoCall
    /\ ep[c] = "Idle"
    /\ pc[c] = "Idle"
    /\ \E u \in URLS : youtube_url' = [youtube_url EXCEPT ![c] = u]
    /\ ep' = [ep EXCEPT ![c] = "Metadata"]
    /\ running' = c
    /\ UNCHANGED << _ffmpeg_available, probes, pc, video_id, captions, temp_dir,
                    temp_files, proc, elapsed, returncode, stderr, audio_files,
                    result, count, response, resolved >>

\* Lines 41-46: no metadata gives a 400; otherwise get_transcript is called.
GetMetadata(c) ==
    /\ running = c
    /\ ep[c] = "Metadata"
    /\ IF HasMetadata(youtube_url[c])
       THEN /\ ep' = [ep EXCEPT ![c] = "Transcript"]
            /\ pc' = [pc EXCEPT ![c] = "ResolvingId"]
            /\ UNCHANGED << running, response >>
       ELSE /\ ep' = [ep EXCEPT ![c] = "Responded"]
            /\ response' = [response EXCEPT ![c] = 400]
            /\ running' = NoCall
            /\ UNCHANGED pc
    /\ UNCHANGED << _ffmpeg_available, probes, youtube_url, video_id, captions,
                    temp_dir, temp_files, proc, elapsed, returncode, stderr,
                    audio_files, result, count, resolved >>

\* Lines 46-110: get_transcript has ended; the request is answered.
Respond(c) ==
    /\ running = c
    /\ ep[c] = "Transcript"
    /\ pc[c] \in Terminal
    /\ ep' = [ep EXCEPT ![c] = "Responded"]
    /\ response' = [response EXCEPT ![c] = AnalyzeOutcome(result[c])]
    /\ running' = NoCall
    /\ UNCHANGED << _ffmpeg_available, probes, pc, youtube_url, video_id, captions,
                    temp_dir, temp_files, proc, elapsed, returncode, stderr,
                    audio_files, result, count, resolved >>

AnalyzeNext ==
    \E c \in Calls :
        \/ Request(c)
        \/ GetMetadata(c)
        \/ ResolveId(c)
        \/ FetchCaptions(c)
        \/ CheckTooling(c)
        \/ CreateTempDir(c)
        \/ StartYtDlp(c)
        \/ Tick(c)
        \/ YtDlpExit(c)
        \/ CheckDownload(c)
        \/ YtDlpTimeout(c)
        \/ HandleTimeout(c)
        \/ Respond(c)

AnalyzeSpec == Init /\ [][AnalyzeNext]_vars

\* ------------------------------------------------------------------ claims
\* What the caller of a failed get_transcript sees.
Failure(parts) == Raised(Exc("Exception", parts))

\* The caption source delivered a track whose joined text is not empty.
GotText(c) == captions[c].kind = "ok" /\ Join(captions[c].track) # <<>>

\* The audio fallback was not touched by invocation c.
NoFallback(c) ==
    /\ count[c].extract = 0
    /\ count[c].mkdtemp = 0
    /\ count[c].ytdlp = 0
    /\ temp_dir[c] = "none"
    /\ proc[c] = "none"

\* t is s without its leading and trailing whitespace.
IsStrippedOf(t, s) ==
    /\ t = <<>> \/ (t[1] \notin Whitespace /\ t[Len(t)] \notin Whitespace)
    /\ \E i \in 0..Len(s) :
        /\ i + Len(t) <= Len(s)
        /\ SubSeq(s, i + 1, i + Len(t)) = t
        /\ \A k \in 1..i : s[k] \in Whitespace
        /\ \A k \in (i + Len(t) + 1)..Len(s) : s[k] \in Whitespace

\* C1 as stated: whenever the caption source returns segments whose joined
\* text is non-empty, get_transcript returns exactly that joined text and
\* never enters the audio fallback.
C1_ReturnsJoinedUnchanged ==
    \A c \in Calls :
        (GotText(c) /\ pc[c] \in Terminal) =>
            /\ result[c] = Returned(Join(captions[c].track))
            /\ NoFallback(c)

\* C1 as amended: whenever the caption source returns segments whose joined
\* text is non-empty, get_transcript returns that joined text with its
\* leading and trailing whitespace removed, and never enters the audio
\* fallback.
C1_ReturnsJoinedStripped ==
    \A c \in Calls :
        GotText(c) =>
            /\ pc[c] = "Done"
            /\ result[c].kind = "return"
            /\ IsStrippedOf(result[c].text, Join(captions[c].track))
            /\ NoFallback(c)

\* A call returned a text that strip() had shortened.
C1_Witness ==
    \E c \in Calls :
        /\ pc[c] = "Done"
        /\ result[c].text # <<>>
        /\ result[c].text # Join(captions[c].track)

\* C2: every text get_transcript returns is non-empty, whatever track the
\* caption source delivered.
C2_ReturnedTextNonEmpty ==
    \A c \in Calls :
        pc[c] = "Done" => Len(result[c].text) >= 1

\* C3: when the caption source raises VideoUnavailable, get_transcript
\* fails at once with the video-unavailable failure, whatever the tooling
\* flag is, and neither reads the flag nor enters the audio fallback.
C3_VideoUnavailableIsFinal ==
    \A c \in Calls :
        captions[c].error = "VideoUnavailable" =>
            /\ pc[c] = "Failed"
            /\ result[c] = Failure(<<MsgVideoUnavailable>>)
            /\ count[c].flag = 0
            /\ NoFallback(c)

\* A call failed on VideoUnavailable although ffmpeg was there.
C3_Witness ==
    \E c \in Calls :
        /\ captions[c].error = "VideoUnavailable"
        /\ _ffmpeg_available
        /\ pc[c] = "Failed"

\* C4: when the caption source raises NoTranscriptFound or
\* TranscriptsDisabled and the cached flag is false, get_transcript fails
\* with the tooling-unavailable failure, yt-dlp is never started and no
\* temporary directory is created.
C4_NoToolingNoDownload ==
    \A c \in Calls :
        ( /\ captions[c].error \in {"NoTranscriptFound", "TranscriptsDisabled"}
          /\ ~_ffmpeg_available ) =>
            /\ pc[c] \in {"ProbingTooling", "Failed"}
            /\ pc[c] = "Failed" =>
                 result[c] = Failure(<<PrefixGetTranscript, MsgNoFfmpeg>>)
            /\ NoFallback(c)

\* A call without captions failed for want of ffmpeg.
C4_Witness ==
    \E c \in Calls :
        /\ captions[c].error \in {"NoTranscriptFound", "TranscriptsDisabled"}
        /\ ~_ffmpeg_available
        /\ pc[c] = "Failed"

\* Invocation c has entered the audio-extraction stage.
ExtractionStarted(c) ==
    \/ count[c].extract > 0
    \/ count[c].mkdtemp > 0
    \/ count[c].ytdlp > 0
    \/ temp_dir[c] # "none"
    \/ proc[c] # "none"
    \/ pc[c] \in {"ExtractingAudio", "StartingDownload", "Downloading",
                  "CheckingDownload", "TimedOut"}

\* C5: audio extraction starts only after the URL was resolved, the caption
\* fetch was attempted once and failed for want of captions (none found,
\* disabled, or a malformed payload), and the flag was read and found true.
C5_ExtractionOnlyAfterFallbackTrigger ==
    \A c \in Calls :
        ExtractionStarted(c) =>
            /\ video_id[c] # None
            /\ count[c].fetch = 1
            /\ captions[c].kind = "raise"
            /\ captions[c].error \in
                 {"NoTranscriptFound", "TranscriptsDisabled", "ParseError"}
            /\ count[c].flag = 1
            /\ _ffmpeg_available

\* A call is downloading audio.
C5_Witness ==
    \E c \in Calls : proc[c] = "running" /\ count[c].extract = 1

\* C6 as stated: a parse error on the caption payload takes the fallback
\* transition: the flag is read and, when ffmpeg is present, audio
\* extraction is entered.
C6_ParseErrorFallsBack ==
    \A c \in Calls :
        (captions[c].error = "ParseError" /\ pc[c] \in Terminal) =>
            /\ count[c].flag = 1
            /\ _ffmpeg_available => count[c].extract = 1

\* C6 as amended: a parse error on the caption payload makes get_transcript
\* fail directly from the caption fetch with the generic failure carrying
\* the error's text; the flag is not read and audio extraction not entered.
C6_ParseErrorFailsDirectly ==
    \A c \in Calls :
        captions[c].error = "ParseError" =>
            /\ pc[c] = "Failed"
            /\ result[c] = Failure(<<PrefixGetTranscript, StrOf("ParseError")>>)
            /\ count[c].flag = 0
            /\ NoFallback(c)

\* A call failed on a parse error although ffmpeg was there.
C6_Witness ==
    \E c \in Calls :
        /\ captions[c].error = "ParseError"
        /\ _ffmpeg_available
        /\ pc[c] = "Failed"

\* The caption source answered, and the joined text is empty.
GotEmptyText(c) == captions[c].kind = "ok" /\ Join(captions[c].track) = <<>>

\* C7 as stated: an empty joined caption text is handled as if the caption
\* source had raised NoTranscriptFound: the flag is read, then the call
\* fails for want of ffmpeg or enters audio extraction.
C7_EmptyTextFallsBack ==
    \A c \in Calls :
        (GotEmptyText(c) /\ pc[c] \in Terminal) =>
            /\ count[c].flag = 1
            /\ _ffmpeg_available => count[c].extract = 1
            /\ ~_ffmpeg_available =>
                 result[c] = Failure(<<PrefixGetTranscript, MsgNoFfmpeg>>)

\* C7 as amended: an empty joined caption text makes get_transcript fail
\* directly with "No transcript available for this video."; the flag is
\* not read and audio extraction is not entered.
C7_EmptyTextFailsDirectly ==
    \A c \in Calls :
        GotEmptyText(c) =>
            /\ pc[c] = "Failed"
            /\ result[c] = Failure(<<PrefixGetTranscript, MsgNoTranscript>>)
            /\ count[c].flag = 0
            /\ NoFallback(c)

\* A call failed on an empty caption text although ffmpeg was there.
C7_Witness ==
    \E c \in Calls :
        /\ GotEmptyText(c)
        /\ _ffmpeg_available
        /\ pc[c] = "Failed"

\* C8: once get_transcript has ended, however the extraction stage ended,
\* the temporary directory of the invocation and its files are gone.
C8_NoTempLeftBehind ==
    \A c \in Calls :
        pc[c] \in Terminal =>
            /\ temp_dir[c] \in {"none", "removed"}
            /\ temp_files[c] = {}

\* A call that timed out has ended and its directory is removed.
C8_Witness ==
    \E c \in Calls :
        /\ pc[c] = "Failed"
        /\ proc[c] = "killed"
        /\ count[c].mkdtemp = 1
        /\ temp_dir[c] = "removed"

\* C9: when yt-dlp has not finished within the 300 seconds, waiting ends:
\* the process is killed and get_transcript fails with the timeout failure
\* and no other.
C9_TimeoutEndsExtraction ==
    \A c \in Calls :
        elapsed[c] >= timeout =>
            \/ /\ pc[c] = "Downloading"
               /\ ENABLED YtDlpTimeout(c)
               /\ ~ENABLED Tick(c)
               /\ ~ENABLED YtDlpExit(c)
            \/ /\ pc[c] = "TimedOut"
               /\ proc[c] = "killed"
            \/ /\ pc[c] = "Failed"
               /\ proc[c] = "killed"
               /\ result[c] = Failure(<<PrefixGetTranscript, MsgTimeout>>)

\* A call has failed after its download used up the budget.
C9_Witness ==
    \E c \in Calls :
        /\ elapsed[c] >= timeout
        /\ pc[c] = "Failed"

\* C10: when captions are unavailable, ffmpeg is present and yt-dlp exits
\* with 0 leaving an audio file, the call goes on to transcription and
\* returns the transcribed, non-empty text (the code has no transcription
\* step that could fail instead).
C10_FallbackEndsInDone ==
    \A c \in Calls :
        ( /\ pc[c] \in Terminal
          /\ proc[c] = "exited"
          /\ returncode[c] = 0
          /\ audio_files[c] # {} ) =>
            /\ pc[c] = "Done"
            /\ result[c].kind = "return"
            /\ result[c].text # <<>>

\* The ten kinds of the failure taxonomy.
TenKinds ==
    {"InvalidReference", "VideoUnavailable", "ToolingUnavailable",
     "ExtractionBlocked", "ExtractionTimeout", "ExtractionFailed",
     "QuotaExceeded", "ConnectionFailed", "UpstreamError", "EmptyResult"}

\* The kind a caller can read off a failure: all failures are plain
\* Exceptions, so only the message tells. Whatever the extraction stage
\* re-raises under its own prefix counts as a generic extraction failure.
KindOf(e) ==
    LET m == e.msg
    IN  IF m = <<MsgVideoUnavailable>> THEN "VideoUnavailable"
        ELSE IF m = <<PrefixGetTranscript, MsgInvalidUrl>> THEN "InvalidReference"
        ELSE IF m = <<PrefixGetTranscript, MsgNoFfmpeg>> THEN "ToolingUnavailable"
        ELSE IF m = <<PrefixGetTranscript, MsgTimeout>> THEN "ExtractionTimeout"
        ELSE IF Len(m) = 3 /\ m[1] = PrefixGetTranscript /\ m[2] = PrefixExtract
        THEN IF m[3] = MsgBlocked THEN "ExtractionBlocked"
             ELSE IF m[3] = MsgFfmpegNotFound THEN "ToolingUnavailable"
             ELSE "ExtractionFailed"
        ELSE "Unclassified"

\* Where and why invocation c failed, read from what it did.
Cause(c) ==
    IF video_id[c] = None THEN "no video id"
    ELSE IF captions[c].kind = "ok" THEN "empty caption text"
    ELSE IF captions[c].error \notin {"NoTranscriptFound", "TranscriptsDisabled"}
    THEN captions[c].error
    ELSE IF count[c].extract = 0 THEN "no ffmpeg"
    ELSE IF count[c].mkdtemp = 0 THEN "no temporary directory"
    ELSE IF count[c].ytdlp = 0 THEN "yt-dlp not started"
    ELSE IF proc[c] = "killed" THEN "timeout"
    ELSE IF returncode[c] # 0
    THEN IF ErrFfmpeg \in stderr[c] THEN "yt-dlp without ffmpeg"
         ELSE IF Err403 \in stderr[c] THEN "blocked"
         ELSE "yt-dlp failed"
    ELSE IF audio_files[c] = {} THEN "no audio file"
    ELSE "transcription not implemented"

\* C11 as stated: every failure of get_transcript reaches the caller as one
\* of the ten classified kinds; none reaches it unclassified.
C11_EveryFailureClassified ==
    \A c \in Calls :
        pc[c] = "Failed" => KindOf(result[c].exc) \in TenKinds

\* C11 as amended: every failure of get_transcript reaches the caller as a
\* plain Exception whose message is the video-unavailable text or
\* "Failed to get transcript: " followed by the message of the stage that
\* failed; failures with different causes carry different messages; the
\* failures for a missing video id, an unavailable video, missing tooling and
\* the extraction stage fall under six of the ten kinds, while an empty
\* caption text and any other caption-source error reach the caller outside
\* the taxonomy, the latter with the raw text of the error.
C11_FailuresToldApartByMessage ==
    \A c \in Calls :
        pc[c] = "Failed" =>
            /\ result[c].exc.type = "Exception"
            /\ \/ result[c].exc.msg = <<MsgVideoUnavailable>>
               \/ /\ Len(result[c].exc.msg) \in {2, 3}
                  /\ result[c].exc.msg[1] = PrefixGetTranscript
            /\ KindOf(result[c].exc) \in
                 {"InvalidReference", "VideoUnavailable", "ToolingUnavailable",
                  "ExtractionBlocked", "ExtractionTimeout", "ExtractionFailed",
                  "Unclassified"}
            /\ KindOf(result[c].exc) = "Unclassified" <=>
                 \/ captions[c].kind = "ok"
                 \/ captions[c].error \in {"ParseError", "ConnectionError"}
            /\ captions[c].error \in {"ParseError", "ConnectionError"} =>
                 result[c].exc.msg = <<PrefixGetTranscript, StrOf(captions[c].error)>>
            /\ \A d \in Calls :
                 (pc[d] = "Failed" /\ Cause(d) # Cause(c)) => result[d] # result[c]

\* Two calls have failed, one blocked by the host, one on a plain yt-dlp
\* failure.
C11_Witness ==
    \E c, d \in Calls :
        /\ pc[c] = "Failed" /\ Cause(c) = "blocked"
        /\ pc[d] = "Failed" /\ Cause(d) = "yt-dlp failed"

\* C12: when the URL matches none of the resolver's patterns, get_transcript
\* fails with the invalid-URL failure, and the caption source, the tooling
\* flag and the audio extraction are not used by that call.
C12_InvalidUrlFailsFirst ==
    \A c \in Calls :
        (pc[c] \notin {"Idle", "ResolvingId"} /\ video_id[c] = None) =>
            /\ pc[c] = "Failed"
            /\ result[c] = Failure(<<PrefixGetTranscript, MsgInvalidUrl>>)
            /\ captions[c] = NotFetched
            /\ count[c] = NoCount
            /\ NoFallback(c)

\* A call failed on a URL that has a pattern's opening but nothing to
\* capture after it.
C12_Witness ==
    \E c \in Calls :
        /\ pc[c] = "Failed"
        /\ video_id[c] = None
        /\ \E i \in 1..Len(youtube_url[c]) : youtube_url[c][i] = "youtu.be/"

\* Invocation c is in flight: called, and not yet returned or raised.
InFlight(c) == pc[c] \notin ({"Idle"} \cup Terminal)

\* Invocation c is inside a long-running I/O step: the caption fetch or the
\* run of yt-dlp.
AtIO(c) == pc[c] \in {"FetchingCaptions", "Downloading"}

\* C14: while one invocation waits on the caption fetch or on yt-dlp,
\* another invocation on the same service can take steps: its I/O wait
\* keeps no other call from starting.
C14_IOWaitBlocksNobody ==
    \A c, d \in Calls :
        (c # d /\ AtIO(c) /\ pc[d] = "Idle") => ENABLED Invoke(d)

\* What holds instead: no two invocations are ever in flight together.
OneInFlightAtMost ==
    \A c, d \in Calls : (InFlight(c) /\ InFlight(d)) => c = d

\* The stages of get_transcript in the order the code passes them.
Rank(p) ==
    CASE p = "Idle" -> 0
      [] p = "ResolvingId" -> 1
      [] p = "FetchingCaptions" -> 2
      [] p = "ProbingTooling" -> 3
      [] p = "ExtractingAudio" -> 4
      [] p = "StartingDownload" -> 5
      [] p = "Downloading" -> 6
      [] p \in {"CheckingDownload", "TimedOut"} -> 7
      [] p \in Terminal -> 8

\* C16: within one invocation every stage is attempted at most once: the
\* caption source is called at most once, yt-dlp is started at most once,
\* no step leads back to an earlier stage, and an invocation that has
\* failed or returned takes no further step.
C16_NoRetry ==
    [][ \A c \in Calls :
            /\ Rank(pc'[c]) >= Rank(pc[c])
            /\ (pc'[c] # pc[c]) => Rank(pc'[c]) > Rank(pc[c])
            /\ count'[c].fetch <= 1
            /\ count'[c].flag <= 1
            /\ count'[c].extract <= 1
            /\ count'[c].mkdtemp <= 1
            /\ count'[c].ytdlp <= 1
            /\ pc[c] \in Terminal =>
                 /\ pc'[c] = pc[c]
                 /\ result'[c] = result[c]
                 /\ count'[c] = count[c]
                 /\ captions'[c] = captions[c]
                 /\ proc'[c] = proc[c] ]_vars

\* A call has failed after yt-dlp, started once, exited with an error.
C16_Witness ==
    \E c \in Calls :
        /\ pc[c] = "Failed"
        /\ proc[c] = "exited"
        /\ returncode[c] # 0
        /\ count[c].fetch = 1
        /\ count[c].ytdlp = 1

\* C17: the tooling check has run once, at construction; no step of any
\* call runs it again or changes the cached flag, and the fallback decision
\* follows the cached flag.
C17_FlagProbedOnce ==
    [][ /\ probes = 1
        /\ probes' = 1
        /\ _ffmpeg_available' = _ffmpeg_available
        /\ \A c \in Calls :
             (pc[c] = "ProbingTooling" /\ pc'[c] # pc[c]) =>
                 IF _ffmpeg_available
                 THEN pc'[c] = "ExtractingAudio"
                 ELSE /\ pc'[c] = "Failed"
                      /\ result'[c] = Failure(<<PrefixGetTranscript, MsgNoFfmpeg>>) ]_vars

\* Two calls, one after the other, have each taken the fallback decision.
C17_Witness ==
    /\ probes = 1
    /\ \A c \in Calls : count[c].flag = 1 /\ pc[c] \in Terminal

\* yt-dlp of invocation c has exited with an error and the call has ended.
ExitedWithError(c) ==
    pc[c] = "Failed" /\ proc[c] = "exited" /\ returncode[c] # 0

ExtractionFailure(msg) == Failure(<<PrefixGetTranscript, PrefixExtract, msg>>)

\* C18 as stated: a non-zero exit whose stderr contains "HTTP Error 403"
\* gives the blocked failure, whatever else stderr contains.
C18_Http403AlwaysBlocked ==
    \A c \in Calls :
        (ExitedWithError(c) /\ Err403 \in stderr[c]) =>
            result[c] = ExtractionFailure(MsgBlocked)

\* C18 as amended: a non-zero exit whose stderr contains "ffprobe and ffmpeg
\* not found" gives the ffmpeg-required failure, whatever else stderr
\* contains; otherwise one whose stderr contains "HTTP Error 403" gives the
\* blocked failure; every other non-zero exit gives the generic extraction
\* failure; a zero exit without an audio file gives "No audio file was
\* extracted."; a timeout gives the timeout failure.
C18_ExitClassification ==
    \A c \in Calls :
        /\ ExitedWithError(c) =>
             result[c] = ExtractionFailure(
                 IF ErrFfmpeg \in stderr[c] THEN MsgFfmpegNotFound
                 ELSE IF Err403 \in stderr[c] THEN MsgBlocked
                 ELSE MsgExtractFailed)
        /\ (pc[c] = "Failed" /\ proc[c] = "exited" /\ returncode[c] = 0
              /\ audio_files[c] = {}) =>
             result[c] = ExtractionFailure(MsgNoAudioFile)
        /\ (pc[c] = "Failed" /\ proc[c] = "killed") =>
             result[c] = Failure(<<PrefixGetTranscript, MsgTimeout>>)

\* A call has failed on a stderr that holds both phrases.
C18_Witness ==
    \E c \in Calls :
        /\ ExitedWithError(c)
        /\ stderr[c] = {ErrFfmpeg, Err403}

\* C13: for every identifier, both resolvers return that identifier for
\* each supported URL shape (watch?v=ID, youtu.be/ID, embed/ID), also when
\* query parameters or a fragment follow it; and on every URL the two
\* resolvers return the same.
C13_ResolversAgreeOnId ==
    /\ (resolved.t_done /\ resolved.shape \in Shapes) => resolved.t = resolved.id
    /\ (resolved.u_done /\ resolved.shape \in Shapes) => resolved.u = resolved.id
    /\ (resolved.t_done /\ resolved.u_done) => resolved.t = resolved.u

\* Both resolvers have answered for a short link that carries a query
\* after the identifier.
C13_Witness ==
    /\ resolved.t_done
    /\ resolved.u_done
    /\ resolved.shape = "short"
    /\ resolved.url # ShapeOpening("short") \o resolved.id
    /\ resolved.u = resolved.id
    /\ Len(resolved.id) = MaxIdLen

\* C15: a POST /analyze with a resolvable YouTube URL whose video has a
\* non-empty caption track is answered with an AnalyzeResponse (status
\* 200), not with an HTTP error.
C15_AnalyzeAnswersWithResponse ==
    \A c \in Calls :
        (ep[c] = "Responded" /\ video_id[c] # None /\ GotText(c)) =>
            response[c] = 200

\* What holds instead: no request is ever answered with a 200.
NeverAnswers200 == \A c \in Calls : response[c] # 200

====
